---- MODULE Spec2Model ----
(***************************************************************************)
(* A model of InMemoryDB (src/in_memory_db/simple_db.py): the key map `db`, *)
(* the value index `value_count`, the transaction stack `transactions` and *)
(* the lock `_lock`.                                                       *)
(*                                                                         *)
(* Spec         one caller; every public method is one atomic action.      *)
(* ConcSpec     several threads; every method is a sequence of steps, one  *)
(*              per access to the shared state, inside `with self._lock`.  *)
(* LiveSpec     ConcSpec under fair scheduling.                            *)
(* WritersSpec  several threads, each calling set() on a name of its own.  *)
(***************************************************************************)
EXTENDS Integers, Sequences, FiniteSets, TLC

\* ------------------------------------------------------------------ bounds
\* BEGIN is modelled up to this nesting depth (the code has no limit).
MaxDepth == 2
\* The same, in the specifications with several threads.
MaxConcDepth == 1
\* The number of threads calling into the store.
NumThreads == 2

\* The names and values the callers pass (any strings, in the code).
Names == {"a", "b"}
Values == {"10", "NULL"}
\* The names the threads of ConcSpec pass.
ConcNames == {"a"}
Threads == 1..NumThreads
\* Writer t of WritersSpec sets only its own name.
NamePool == <<"a", "b", "c", "d">>
WriterName(t) == NamePool[t]
WriterNames == {WriterName(t) : t \in Threads}

\* Python's None: what dict.get answers for a missing key, and what a method
\* without a return statement returns. It is no string, so it is none of Values.
None == "<None>"
\* The status string of rollback() and commit() on an empty stack.
NoTransaction == "NO TRANSACTION"

VARIABLES
    db,            \* self.db: name -> value
    value_count,   \* self.value_count: value -> number of names bound to it
    transactions,  \* self.transactions: the frames, innermost last; a frame is
                   \* a dict in insertion order: a sequence of [name, old]
    lock,          \* self._lock: TRUE while held
    pc,            \* per thread: the statement it is at
    loc,           \* per thread: the locals of the running method
    op,            \* history: the last call made by the single caller
    ret,           \* history: what that call returned
    snaps,         \* history: per open frame, db and value_count at its BEGIN
    committed,     \* history: a COMMIT succeeded and no BEGIN followed yet
    written,       \* history: per name, the value its writer passed to set() last
    command,       \* main(): the tokens of the line read last
    out,           \* main(): what the last iteration printed, None if nothing
    status         \* main(): "reading", "ended" (break) or "crashed"

vars == <<db, value_count, transactions, lock, pc, loc, op, ret, snaps,
          committed, written, command, out, status>>
store == <<db, value_count, transactions>>
threadVars == <<lock, pc, loc, written>>
historyVars == <<op, ret, snaps, committed>>
cmdVars == <<command, out, status>>

\* ------------------------------------------------------------ dict helpers
EmptyDict == [k \in {} |-> None]
Put(d, k, v) == [x \in (DOMAIN d) \cup {k} |-> IF x = k THEN v ELSE d[x]]
Del(d, k) == [x \in (DOMAIN d) \ {k} |-> d[x]]
\* dict.get(k, default)
GetOr(d, k, default) == IF k \in DOMAIN d THEN d[k] ELSE default
\* self.db.get(name)
DbGet(d, n) == GetOr(d, n, None)

\* ------------------------------------------------- _update_value_count
DecCount(vc, old_value) == Put(vc, old_value, GetOr(vc, old_value, 0) - 1)
\* Mutant: a count that reached 0 stays in the index.
DropZeroNever(vc, old_value) == vc

DropZero(vc, old_value) ==
    IF vc[old_value] = 0 THEN Del(vc, old_value) ELSE vc
IncCount(vc, new_value) == Put(vc, new_value, GetOr(vc, new_value, 0) + 1)

\* Mutant: the old value's count is never decremented.
UpdateValueCountNoDec(vc, old_value, new_value) ==
    IF new_value # None THEN IncCount(vc, new_value) ELSE vc

UpdateValueCount(vc, old_value, new_value) ==
    LET dec == IF old_value # None
               THEN DropZero(DecCount(vc, old_value), old_value)
               ELSE vc
    IN  IF new_value # None THEN IncCount(dec, new_value) ELSE dec

\* ------------------------------------------------------------ undo frames
FrameNames(frame) == {frame[i].name : i \in 1..Len(frame)}

\* Mutant: the undo entry is written on every mutation, not only the first.
RecordUndoOverwrite(txs, n, old_value) ==
    IF txs = <<>> THEN txs
    ELSE LET top == Len(txs)
             current_transaction == txs[top]
             e == [name |-> n, old |-> old_value]
         IN  IF n \notin FrameNames(current_transaction)
             THEN [txs EXCEPT ![top] = Append(current_transaction, e)]
             ELSE [txs EXCEPT ![top] =
                       [i \in 1..Len(current_transaction) |->
                           IF current_transaction[i].name = n THEN e
                           ELSE current_transaction[i]]]

\* `if self.transactions: ... if name not in current_transaction:
\*      current_transaction[name] = old_value`
RecordUndo(txs, n, old_value) ==
    IF txs = <<>> THEN txs
    ELSE LET top == Len(txs)
             current_transaction == txs[top]
         IN  IF n \notin FrameNames(current_transaction)
             THEN [txs EXCEPT ![top] =
                       Append(current_transaction, [name |-> n, old |-> old_value])]
             ELSE txs

\* Mutant: a name that was unbound when the frame began stays bound.
RestoreEntryKeepsAdded(s, e) ==
    LET current_value == DbGet(s.db, e.name)
    IN  IF e.old = None
        THEN s
        ELSE [db |-> Put(s.db, e.name, e.old),
              vc |-> UpdateValueCount(s.vc, current_value, e.old)]

\* One iteration of rollback's loop over transaction.items().
RestoreEntry(s, e) ==
    LET current_value == DbGet(s.db, e.name)
    IN  IF e.old = None
        THEN IF e.name \in DOMAIN s.db
             THEN [db |-> Del(s.db, e.name),
                   vc |-> UpdateValueCount(s.vc, current_value, None)]
             ELSE s
        ELSE [db |-> Put(s.db, e.name, e.old),
              vc |-> UpdateValueCount(s.vc, current_value, e.old)]

RECURSIVE RestoreFrom(_, _, _)
RestoreFrom(s, frame, i) ==
    IF i > Len(frame) THEN s
    ELSE RestoreFrom(RestoreEntry(s, frame[i]), frame, i + 1)

\* The whole loop, in the dict's insertion order.
RestoreAll(d, vc, frame) == RestoreFrom([db |-> d, vc |-> vc], frame, 1)

\* ------------------------------------------------------------------- reads
\* get(): self.db.get(name, 'NULL')
GetResult(d, n) == GetOr(d, n, "NULL")
\* numequalto(): self.value_count.get(value, 0)
NumEqualToResult(vc, v) == GetOr(vc, v, 0)

\* --------------------------------------------------------------- histories
\* A call: its arguments, the depth it was issued at and, for ROLLBACK, the
\* number of undo entries of the frame it popped.
Call(kind, n, v) ==
    [kind |-> kind, name |-> n, value |-> v, depth |-> Len(transactions),
     undone |-> IF kind = "ROLLBACK" /\ transactions # <<>>
                THEN Len(transactions[Len(transactions)]) ELSE 0]
\* A thread's locals: the call and its arguments, the locals of the method
\* (old_value, current_value, transaction and the loop position i), those of
\* _update_value_count (its arguments uold and unew, the count it has read,
\* tmp, and where it returns to, back) and the value to return: ret, or the
\* integer count of numequalto.
NoLocals == [call |-> None, name |-> None, value |-> None, old_value |-> None,
             current_value |-> None, transaction |-> <<>>, i |-> 0,
             uold |-> None, unew |-> None, tmp |-> 0, back |-> None,
             ret |-> None, count |-> 0]

Init ==
    /\ db = EmptyDict
    /\ value_count = EmptyDict
    /\ transactions = <<>>
    /\ lock = FALSE
    /\ pc = [t \in Threads |-> "idle"]
    /\ loc = [t \in Threads |-> NoLocals]
    /\ op = [kind |-> "NEW", name |-> None, value |-> None, depth |-> 0,
             undone |-> 0]
    /\ ret = None
    /\ snaps = <<>>
    /\ committed = FALSE
    /\ written = [n \in WriterNames |-> None]
    /\ command = <<>>
    /\ out = None
    /\ status = "reading"

\* ------------------------------------------- the methods, one caller (Spec)
\* Mutant: a bound name keeps its value (setdefault instead of assignment).
SetKeepsBound(n, v) ==
    LET old_value == DbGet(db, n)
    IN  /\ transactions' = RecordUndo(transactions, n, old_value)
        /\ db' = IF n \in DOMAIN db THEN db ELSE Put(db, n, v)
        /\ value_count' = IF n \in DOMAIN db THEN value_count
                          ELSE UpdateValueCount(value_count, old_value, v)
        /\ op' = Call("SET", n, v)
        /\ ret' = None
        /\ UNCHANGED <<snaps, committed, threadVars, cmdVars>>

Set(n, v) ==
    LET old_value == DbGet(db, n)
    IN  /\ transactions' = RecordUndo(transactions, n, old_value)
        /\ db' = Put(db, n, v)
        /\ value_count' = UpdateValueCount(value_count, old_value, v)
        /\ op' = Call("SET", n, v)
        /\ ret' = None
        /\ UNCHANGED <<snaps, committed, threadVars, cmdVars>>

Get(n) ==
    /\ ret' = GetResult(db, n)
    /\ op' = Call("GET", n, None)
    /\ UNCHANGED <<store, snaps, committed, threadVars, cmdVars>>

\* Mutant: the undo entry is recorded before the test `name in self.db`.
UnsetRecordsFirst(n) ==
    /\ IF n \in DOMAIN db
       THEN LET old_value == db[n]
            IN  /\ transactions' = RecordUndo(transactions, n, old_value)
                /\ db' = Del(db, n)
                /\ value_count' = UpdateValueCount(value_count, old_value, None)
       ELSE /\ transactions' = RecordUndo(transactions, n, None)
            /\ UNCHANGED <<db, value_count>>
    /\ op' = Call("UNSET", n, None)
    /\ ret' = None
    /\ UNCHANGED <<snaps, committed, threadVars, cmdVars>>

Unset(n) ==
    /\ IF n \in DOMAIN db
       THEN LET old_value == db[n]
            IN  /\ transactions' = RecordUndo(transactions, n, old_value)
                /\ db' = Del(db, n)
                /\ value_count' = UpdateValueCount(value_count, old_value, None)
       ELSE UNCHANGED store
    /\ op' = Call("UNSET", n, None)
    /\ ret' = None
    /\ UNCHANGED <<snaps, committed, threadVars, cmdVars>>

NumEqualTo(v) ==
    /\ ret' = NumEqualToResult(value_count, v)
    /\ op' = Call("NUMEQUALTO", None, v)
    /\ UNCHANGED <<store, snaps, committed, threadVars, cmdVars>>

\* Mutant: BEGIN inside an open transaction is refused (no nesting).
BeginOutermostOnly ==
    /\ transactions = <<>>
    /\ transactions' = Append(transactions, <<>>)
    /\ snaps' = Append(snaps, [db |-> db, vc |-> value_count])
    /\ committed' = FALSE
    /\ op' = Call("BEGIN", None, None)
    /\ ret' = None
    /\ UNCHANGED <<db, value_count, threadVars, cmdVars>>

Begin ==
    /\ Len(transactions) < MaxDepth
    /\ transactions' = Append(transactions, <<>>)
    /\ snaps' = Append(snaps, [db |-> db, vc |-> value_count])
    /\ committed' = FALSE
    /\ op' = Call("BEGIN", None, None)
    /\ ret' = None
    /\ UNCHANGED <<db, value_count, threadVars, cmdVars>>

\* Mutant: no test for the empty stack; nothing to pop, nothing reported.
RollbackUnchecked ==
    /\ IF transactions = <<>>
       THEN /\ ret' = None
            /\ UNCHANGED <<store, snaps>>
       ELSE LET top == Len(transactions)
                s == RestoreAll(db, value_count, transactions[top])
            IN  /\ transactions' = SubSeq(transactions, 1, top - 1)
                /\ db' = s.db
                /\ value_count' = s.vc
                /\ snaps' = SubSeq(snaps, 1, top - 1)
                /\ ret' = None
    /\ op' = Call("ROLLBACK", None, None)
    /\ UNCHANGED <<committed, threadVars, cmdVars>>

\* Mutant: the restoration goes through the undo capture of set and unset, so
\* it records the names it restores in the frame below.
RollbackRecordsRestores ==
    /\ IF transactions = <<>>
       THEN /\ ret' = NoTransaction
            /\ UNCHANGED <<store, snaps>>
       ELSE LET top == Len(transactions)
                transaction == transactions[top]
                s == RestoreAll(db, value_count, transaction)
                rest == SubSeq(transactions, 1, top - 1)
                New(e) == e.name \notin FrameNames(rest[top - 1])
                added == SelectSeq(transaction, New)
            IN  /\ transactions' =
                       IF top = 1 THEN rest
                       ELSE [rest EXCEPT ![top - 1] = @ \o
                                [i \in 1..Len(added) |->
                                    [name |-> added[i].name,
                                     old |-> DbGet(db, added[i].name)]]]
                /\ db' = s.db
                /\ value_count' = s.vc
                /\ snaps' = SubSeq(snaps, 1, top - 1)
                /\ ret' = None
    /\ op' = Call("ROLLBACK", None, None)
    /\ UNCHANGED <<committed, threadVars, cmdVars>>

Rollback ==
    /\ IF transactions = <<>>
       THEN /\ ret' = NoTransaction
            /\ UNCHANGED <<store, snaps>>
       ELSE LET top == Len(transactions)
                transaction == transactions[top]
                s == RestoreAll(db, value_count, transaction)
            IN  /\ transactions' = SubSeq(transactions, 1, top - 1)
                /\ db' = s.db
                /\ value_count' = s.vc
                /\ snaps' = SubSeq(snaps, 1, top - 1)
                /\ ret' = None
    /\ op' = Call("ROLLBACK", None, None)
    /\ UNCHANGED <<committed, threadVars, cmdVars>>

\* Mutant: COMMIT discards the innermost frame only.
CommitInnermost ==
    /\ IF transactions = <<>>
       THEN /\ ret' = NoTransaction
            /\ UNCHANGED <<store, snaps, committed>>
       ELSE /\ transactions' = SubSeq(transactions, 1, Len(transactions) - 1)
            /\ snaps' = SubSeq(snaps, 1, Len(snaps) - 1)
            /\ committed' = TRUE
            /\ ret' = None
            /\ UNCHANGED <<db, value_count>>
    /\ op' = Call("COMMIT", None, None)
    /\ UNCHANGED <<threadVars, cmdVars>>

\* Mutant: COMMIT reports success and leaves the frames on the stack.
CommitKeepsFrames ==
    /\ IF transactions = <<>>
       THEN /\ ret' = NoTransaction
            /\ UNCHANGED committed
       ELSE /\ committed' = TRUE
            /\ ret' = None
    /\ op' = Call("COMMIT", None, None)
    /\ UNCHANGED <<store, snaps, threadVars, cmdVars>>

Commit ==
    /\ IF transactions = <<>>
       THEN /\ ret' = NoTransaction
            /\ UNCHANGED <<store, snaps, committed>>
       ELSE /\ transactions' = <<>>
            /\ snaps' = <<>>
            /\ committed' = TRUE
            /\ ret' = None
            /\ UNCHANGED <<db, value_count>>
    /\ op' = Call("COMMIT", None, None)
    /\ UNCHANGED <<threadVars, cmdVars>>

Next ==
    \/ \E n \in Names, v \in Values : Set(n, v)
    \/ \E n \in Names : Get(n)
    \/ \E n \in Names : Unset(n)
    \/ \E v \in Values : NumEqualTo(v)
    \/ Begin
    \/ Rollback
    \/ Commit

Spec == Init /\ [][Next]_vars

\* --------------------------------- the methods, several threads (ConcSpec)
\* pc[t] is "idle" (no call), "lock" (at `with self._lock:`), a statement of
\* the body, or "unlock" (leaving the with block).
At(t, label) == pc[t] = label
Goto(t, label) == pc' = [pc EXCEPT ![t] = label]
Locals(t, r) == loc' = [loc EXCEPT ![t] = r]
InCS(t) == pc[t] \notin {"idle", "lock"}

\* The first statement of each method's body.
Body(call) ==
    CASE call = "SET" -> "set_read"
      [] call = "GET" -> "get_read"
      [] call = "UNSET" -> "unset_check"
      [] call = "NUMEQUALTO" -> "num_read"
      [] call = "BEGIN" -> "begin_push"
      [] call = "ROLLBACK" -> "rb_check"
      [] call = "COMMIT" -> "commit_check"

Invocation(call, n, v) ==
    [NoLocals EXCEPT !.call = call, !.name = n, !.value = v]
\* BEGINs already invoked and not yet returned count towards the depth bound.
PendingBegins == Cardinality({t \in Threads : loc[t].call = "BEGIN"})

\* A thread calls a method.
Invoke(t) ==
    /\ At(t, "idle")
    /\ \E r \in {Invocation("SET", n, v) : n \in ConcNames, v \in Values}
           \cup {Invocation("GET", n, None) : n \in ConcNames}
           \cup {Invocation("UNSET", n, None) : n \in ConcNames}
           \cup {Invocation("NUMEQUALTO", None, v) : v \in Values}
           \cup {Invocation(c, None, None) : c \in {"BEGIN", "ROLLBACK", "COMMIT"}} :
          /\ r.call = "BEGIN" => Len(transactions) + PendingBegins < MaxConcDepth
          /\ Locals(t, r)
    /\ Goto(t, "lock")
    /\ UNCHANGED <<store, lock, written, historyVars, cmdVars>>

\* Mutant: the lock is taken without waiting for it to be free.
AcquireUnguarded(t) ==
    /\ At(t, "lock")
    /\ lock' = TRUE
    /\ Goto(t, Body(loc[t].call))
    /\ UNCHANGED <<store, loc, written, historyVars, cmdVars>>

\* Mutant: the readers get and numequalto run without the lock.
AcquireWritersOnly(t) ==
    /\ At(t, "lock")
    /\ IF loc[t].call \in {"GET", "NUMEQUALTO"}
       THEN UNCHANGED lock
       ELSE ~lock /\ lock' = TRUE
    /\ Goto(t, Body(loc[t].call))
    /\ UNCHANGED <<store, loc, written, historyVars, cmdVars>>

\* `with self._lock:` on entry: threading.Lock.acquire, blocking while held.
Acquire(t) ==
    /\ At(t, "lock")
    /\ ~lock
    /\ lock' = TRUE
    /\ Goto(t, Body(loc[t].call))
    /\ UNCHANGED <<store, loc, written, historyVars, cmdVars>>

\* `with self._lock:` on exit, by return or by falling off the block; the call
\* returns loc[t].ret to its caller.
Release(t) ==
    /\ At(t, "unlock")
    /\ lock' = FALSE
    /\ Goto(t, "idle")
    /\ Locals(t, NoLocals)
    /\ UNCHANGED <<store, written, historyVars, cmdVars>>

\* set: old_value = self.db.get(name)
SetRead(t) ==
    /\ At(t, "set_read")
    /\ Locals(t, [loc[t] EXCEPT !.old_value = DbGet(db, loc[t].name)])
    /\ Goto(t, "set_record")
    /\ UNCHANGED <<store, lock, written, historyVars, cmdVars>>

\* Mutant: set() does not record the name in the open frame.
SetRecordSkips(t) ==
    /\ At(t, "set_record")
    /\ Goto(t, "set_write")
    /\ UNCHANGED <<store, lock, loc, written, historyVars, cmdVars>>

\* set: if self.transactions: ... current_transaction[name] = old_value
SetRecord(t) ==
    /\ At(t, "set_record")
    /\ transactions' = RecordUndo(transactions, loc[t].name, loc[t].old_value)
    /\ Goto(t, "set_write")
    /\ UNCHANGED <<db, value_count, lock, loc, written, historyVars, cmdVars>>

\* set: self.db[name] = value, then the call of _update_value_count
SetWrite(t) ==
    /\ At(t, "set_write")
    /\ db' = Put(db, loc[t].name, loc[t].value)
    /\ Locals(t, [loc[t] EXCEPT !.uold = loc[t].old_value,
                                !.unew = loc[t].value, !.back = "unlock"])
    /\ Goto(t, "uvc_dec")
    /\ UNCHANGED <<value_count, transactions, lock, written, historyVars, cmdVars>>

\* _update_value_count: if old_value is not None: read its count
UvcDecRead(t) ==
    /\ At(t, "uvc_dec")
    /\ IF loc[t].uold # None
       THEN /\ Locals(t, [loc[t] EXCEPT !.tmp = GetOr(value_count, loc[t].uold, 0)])
            /\ Goto(t, "uvc_dec_write")
       ELSE /\ Goto(t, "uvc_inc")
            /\ UNCHANGED loc
    /\ UNCHANGED <<store, lock, written, historyVars, cmdVars>>

\* _update_value_count: self.value_count[old_value] = <count read> - 1
UvcDecWrite(t) ==
    /\ At(t, "uvc_dec_write")
    /\ value_count' = Put(value_count, loc[t].uold, loc[t].tmp - 1)
    /\ Goto(t, "uvc_zero")
    /\ UNCHANGED <<db, transactions, lock, loc, written, historyVars, cmdVars>>

\* _update_value_count: if self.value_count[old_value] == 0: del ...
\* (a KeyError, were the key gone, leaves the with block).
UvcZero(t) ==
    /\ At(t, "uvc_zero")
    /\ IF loc[t].uold \in DOMAIN value_count
       THEN /\ value_count' = DropZero(value_count, loc[t].uold)
            /\ Goto(t, "uvc_inc")
            /\ UNCHANGED loc
       ELSE /\ Locals(t, [loc[t] EXCEPT !.ret = "KeyError"])
            /\ Goto(t, "unlock")
            /\ UNCHANGED value_count
    /\ UNCHANGED <<db, transactions, lock, written, historyVars, cmdVars>>

\* _update_value_count: if new_value is not None: read its count
UvcIncRead(t) ==
    /\ At(t, "uvc_inc")
    /\ IF loc[t].unew # None
       THEN /\ Locals(t, [loc[t] EXCEPT !.tmp = GetOr(value_count, loc[t].unew, 0)])
            /\ Goto(t, "uvc_inc_write")
       ELSE /\ Goto(t, loc[t].back)
            /\ UNCHANGED loc
    /\ UNCHANGED <<store, lock, written, historyVars, cmdVars>>

\* _update_value_count: self.value_count[new_value] = <count read> + 1
UvcIncWrite(t) ==
    /\ At(t, "uvc_inc_write")
    /\ value_count' = Put(value_count, loc[t].unew, loc[t].tmp + 1)
    /\ Goto(t, loc[t].back)
    /\ UNCHANGED <<db, transactions, lock, loc, written, historyVars, cmdVars>>

\* get: return self.db.get(name, 'NULL')
GetRead(t) ==
    /\ At(t, "get_read")
    /\ Locals(t, [loc[t] EXCEPT !.ret = GetResult(db, loc[t].name)])
    /\ Goto(t, "unlock")
    /\ UNCHANGED <<store, lock, written, historyVars, cmdVars>>

\* numequalto: return self.value_count.get(value, 0)
NumRead(t) ==
    /\ At(t, "num_read")
    /\ Locals(t, [loc[t] EXCEPT
                   !.count = NumEqualToResult(value_count, loc[t].value)])
    /\ Goto(t, "unlock")
    /\ UNCHANGED <<store, lock, written, historyVars, cmdVars>>

\* unset: if name in self.db: old_value = self.db[name]
UnsetCheck(t) ==
    /\ At(t, "unset_check")
    /\ IF loc[t].name \in DOMAIN db
       THEN /\ Locals(t, [loc[t] EXCEPT !.old_value = db[loc[t].name]])
            /\ Goto(t, "unset_record")
       ELSE /\ Goto(t, "unlock")
            /\ UNCHANGED loc
    /\ UNCHANGED <<store, lock, written, historyVars, cmdVars>>

\* unset: if self.transactions: ... current_transaction[name] = old_value
UnsetRecord(t) ==
    /\ At(t, "unset_record")
    /\ transactions' = RecordUndo(transactions, loc[t].name, loc[t].old_value)
    /\ Goto(t, "unset_del")
    /\ UNCHANGED <<db, value_count, lock, loc, written, historyVars, cmdVars>>

\* unset: del self.db[name], then the call of _update_value_count
UnsetDel(t) ==
    /\ At(t, "unset_del")
    /\ db' = Del(db, loc[t].name)
    /\ Locals(t, [loc[t] EXCEPT !.uold = loc[t].old_value,
                                !.unew = None, !.back = "unlock"])
    /\ Goto(t, "uvc_dec")
    /\ UNCHANGED <<value_count, transactions, lock, written, historyVars, cmdVars>>

\* begin: self.transactions.append({})
BeginPush(t) ==
    /\ At(t, "begin_push")
    /\ transactions' = Append(transactions, <<>>)
    /\ snaps' = Append(snaps, [db |-> db, vc |-> value_count])
    /\ Goto(t, "unlock")
    /\ UNCHANGED <<db, value_count, lock, loc, written, op, ret, committed,
                   cmdVars>>

\* Mutant: the early return leaves without releasing the lock (acquire and
\* release written out by hand, the release missing on this path).
RollbackCheckLeaks(t) ==
    /\ At(t, "rb_check")
    /\ IF transactions = <<>>
       THEN /\ Locals(t, NoLocals)
            /\ Goto(t, "idle")
            /\ UNCHANGED transactions
       ELSE /\ Locals(t, [loc[t] EXCEPT
                   !.transaction = transactions[Len(transactions)], !.i = 1])
            /\ transactions' = SubSeq(transactions, 1, Len(transactions) - 1)
            /\ Goto(t, "rb_loop")
    /\ UNCHANGED <<db, value_count, lock, written, historyVars, cmdVars>>

\* rollback: if not self.transactions: return 'NO TRANSACTION';
\* transaction = self.transactions.pop()
RollbackCheck(t) ==
    /\ At(t, "rb_check")
    /\ IF transactions = <<>>
       THEN /\ Locals(t, [loc[t] EXCEPT !.ret = NoTransaction])
            /\ Goto(t, "unlock")
            /\ UNCHANGED transactions
       ELSE /\ Locals(t, [loc[t] EXCEPT
                   !.transaction = transactions[Len(transactions)], !.i = 1])
            /\ transactions' = SubSeq(transactions, 1, Len(transactions) - 1)
            /\ Goto(t, "rb_loop")
    /\ UNCHANGED <<db, value_count, lock, written, historyVars, cmdVars>>

\* rollback: for name, old_value in transaction.items():
\*     current_value = self.db.get(name), and the tests on old_value and name
RollbackLoop(t) ==
    /\ At(t, "rb_loop")
    /\ IF loc[t].i > Len(loc[t].transaction)
       THEN /\ Goto(t, "unlock")
            /\ snaps' = SubSeq(snaps, 1, Len(snaps) - 1)
            /\ UNCHANGED loc
       ELSE LET e == loc[t].transaction[loc[t].i]
                r == [loc[t] EXCEPT !.name = e.name, !.old_value = e.old,
                                    !.current_value = DbGet(db, e.name),
                                    !.i = loc[t].i + 1]
            IN  /\ Locals(t, r)
                /\ Goto(t, IF e.old # None THEN "rb_put"
                           ELSE IF e.name \in DOMAIN db THEN "rb_del"
                           ELSE "rb_loop")
                /\ UNCHANGED snaps
    /\ UNCHANGED <<store, lock, written, op, ret, committed, cmdVars>>

\* rollback: del self.db[name]; self._update_value_count(current_value, None)
RollbackDel(t) ==
    /\ At(t, "rb_del")
    /\ db' = Del(db, loc[t].name)
    /\ Locals(t, [loc[t] EXCEPT !.uold = loc[t].current_value,
                                !.unew = None, !.back = "rb_loop"])
    /\ Goto(t, "uvc_dec")
    /\ UNCHANGED <<value_count, transactions, lock, written, historyVars, cmdVars>>

\* rollback: self.db[name] = old_value;
\* self._update_value_count(current_value, old_value)
RollbackPut(t) ==
    /\ At(t, "rb_put")
    /\ db' = Put(db, loc[t].name, loc[t].old_value)
    /\ Locals(t, [loc[t] EXCEPT !.uold = loc[t].current_value,
                                !.unew = loc[t].old_value, !.back = "rb_loop"])
    /\ Goto(t, "uvc_dec")
    /\ UNCHANGED <<value_count, transactions, lock, written, historyVars, cmdVars>>

\* commit: if not self.transactions: return 'NO TRANSACTION';
\* self.transactions.clear()
CommitCheck(t) ==
    /\ At(t, "commit_check")
    /\ IF transactions = <<>>
       THEN /\ Locals(t, [loc[t] EXCEPT !.ret = NoTransaction])
            /\ UNCHANGED <<transactions, snaps>>
       ELSE /\ transactions' = <<>>
            /\ snaps' = <<>>
            /\ UNCHANGED loc
    /\ Goto(t, "unlock")
    /\ UNCHANGED <<db, value_count, lock, written, op, ret, committed, cmdVars>>

\* _update_value_count, statement by statement.
UvcStep(t) ==
    \/ UvcDecRead(t)
    \/ UvcDecWrite(t)
    \/ UvcZero(t)
    \/ UvcIncRead(t)
    \/ UvcIncWrite(t)

\* Every step of a thread inside a with block, the release included.
Step(t) ==
    \/ SetRead(t)
    \/ SetRecord(t)
    \/ SetWrite(t)
    \/ UvcStep(t)
    \/ GetRead(t)
    \/ NumRead(t)
    \/ UnsetCheck(t)
    \/ UnsetRecord(t)
    \/ UnsetDel(t)
    \/ BeginPush(t)
    \/ RollbackCheck(t)
    \/ RollbackLoop(t)
    \/ RollbackDel(t)
    \/ RollbackPut(t)
    \/ CommitCheck(t)
    \/ Release(t)

ConcNext == \E t \in Threads : Invoke(t) \/ Acquire(t) \/ Step(t)

ConcSpec == Init /\ [][ConcNext]_vars

\* A running thread keeps running; a thread waiting for the lock gets it if the
\* lock is free again and again (fair scheduling). Calling is up to the caller.
LiveSpec ==
    /\ ConcSpec
    /\ \A t \in Threads : WF_vars(Step(t)) /\ SF_vars(Acquire(t))

\* ------------------- one thread opens the frames, the others write (SharedSpec)
\* The thread that calls begin() and rollback(); every other thread calls the
\* remaining methods.
IsOpener(t) == \A u \in Threads : t <= u

SharedInvoke(t) ==
    /\ At(t, "idle")
    /\ \E r \in IF IsOpener(t)
               THEN {Invocation(c, None, None) : c \in {"BEGIN", "ROLLBACK"}}
               ELSE {Invocation("SET", n, v) : n \in ConcNames, v \in Values}
                    \cup {Invocation("GET", n, None) : n \in ConcNames}
                    \cup {Invocation("UNSET", n, None) : n \in ConcNames}
                    \cup {Invocation("NUMEQUALTO", None, v) : v \in Values}
                    \cup {Invocation("COMMIT", None, None)} :
          /\ r.call = "BEGIN" => Len(transactions) + PendingBegins < MaxConcDepth
          /\ Locals(t, r)
    /\ Goto(t, "lock")
    /\ UNCHANGED <<store, lock, written, historyVars, cmdVars>>

SharedNext == \E t \in Threads : SharedInvoke(t) \/ Acquire(t) \/ Step(t)

SharedSpec == Init /\ [][SharedNext]_vars

\* ---------------------------- writers of disjoint names (WritersSpec)
\* Writer t calls set() on its own name, any number of times.
WriterInvoke(t) ==
    /\ At(t, "idle")
    /\ \E v \in Values :
          /\ Locals(t, Invocation("SET", WriterName(t), v))
          /\ written' = [written EXCEPT ![WriterName(t)] = v]
    /\ Goto(t, "lock")
    /\ UNCHANGED <<store, lock, historyVars, cmdVars>>

WriterStep(t) ==
    \/ SetRead(t)
    \/ SetRecord(t)
    \/ SetWrite(t)
    \/ UvcStep(t)
    \/ Release(t)

WritersNext == \E t \in Threads : WriterInvoke(t) \/ Acquire(t) \/ WriterStep(t)

WritersSpec == Init /\ [][WritersNext]_vars

\* ------------------------------------------ the command loop (CmdSpec)
\* The verbs typed: the eight commands, one in lower case, one unknown.
Verbs == {"SET", "GET", "UNSET", "NUMEQUALTO", "BEGIN", "ROLLBACK", "COMMIT",
          "END", "get", "FOO"}
\* The tokens that follow a verb.
ArgTokens == ConcNames \cup Values
\* input().strip().split(): the blank line, and a verb followed by up to
\* three tokens.
Lines ==
    {<<>>}
    \cup {<<c>> : c \in Verbs}
    \cup {<<c, t>> : c \in Verbs, t \in ArgTokens}
    \cup {<<c, n, v>> : c \in Verbs, n \in ConcNames, v \in Values}
    \cup {<<c, n, v, n>> : c \in Verbs, n \in ConcNames, v \in Values}

\* command[0].upper(), on the verbs typed
Upper(tok) == IF tok = "get" THEN "GET" ELSE tok

InvalidCommand == "Invalid command"

\* One iteration of the while loop of main(): the elif chain in its order.
MainLoop(c) ==
    /\ status = "reading"
    /\ (c # <<>> /\ Upper(c[1]) = "BEGIN") => Len(transactions) < MaxConcDepth
    /\ command' = c
    /\ IF c = <<>>
       THEN /\ out' = None
            /\ UNCHANGED <<store, status>>
       ELSE LET cmd == Upper(c[1])
            IN  IF cmd = "END"
                THEN /\ status' = "ended"
                     /\ out' = None
                     /\ UNCHANGED store
                ELSE IF cmd = "SET" /\ Len(c) = 3
                THEN LET old_value == DbGet(db, c[2])
                     IN  /\ transactions' = RecordUndo(transactions, c[2], old_value)
                         /\ db' = Put(db, c[2], c[3])
                         /\ value_count' =
                                UpdateValueCount(value_count, old_value, c[3])
                         /\ out' = None
                         /\ UNCHANGED status
                ELSE IF cmd = "GET" /\ Len(c) = 2
                THEN /\ out' = GetResult(db, c[2])
                     /\ UNCHANGED <<store, status>>
                ELSE IF cmd = "UNSET" /\ Len(c) = 2
                THEN /\ IF c[2] \in DOMAIN db
                        THEN /\ transactions' =
                                    RecordUndo(transactions, c[2], db[c[2]])
                             /\ db' = Del(db, c[2])
                             /\ value_count' =
                                    UpdateValueCount(value_count, db[c[2]], None)
                        ELSE UNCHANGED store
                     /\ out' = None
                     /\ UNCHANGED status
                ELSE IF cmd = "NUMEQUALTO" /\ Len(c) = 2
                THEN \* command[2] of a two-token list: IndexError, which the
                     \* except EOFError clause does not catch
                     /\ status' = "crashed"
                     /\ out' = None
                     /\ UNCHANGED store
                ELSE IF cmd = "BEGIN"
                THEN /\ transactions' = Append(transactions, <<>>)
                     /\ out' = None
                     /\ UNCHANGED <<db, value_count, status>>
                ELSE IF cmd = "ROLLBACK"
                THEN /\ IF transactions = <<>>
                        THEN /\ out' = NoTransaction
                             /\ UNCHANGED store
                        ELSE LET top == Len(transactions)
                                 s == RestoreAll(db, value_count, transactions[top])
                             IN  /\ transactions' = SubSeq(transactions, 1, top - 1)
                                 /\ db' = s.db
                                 /\ value_count' = s.vc
                                 /\ out' = None
                     /\ UNCHANGED status
                ELSE IF cmd = "COMMIT"
                THEN /\ IF transactions = <<>>
                        THEN /\ out' = NoTransaction
                             /\ UNCHANGED store
                        ELSE /\ transactions' = <<>>
                             /\ out' = None
                             /\ UNCHANGED <<db, value_count>>
                     /\ UNCHANGED status
                ELSE /\ out' = InvalidCommand
                     /\ UNCHANGED <<store, status>>
    /\ UNCHANGED <<threadVars, historyVars>>

\* input() raises EOFError: break.
EndOfInput ==
    /\ status = "reading"
    /\ status' = "ended"
    /\ UNCHANGED <<store, command, out, threadVars, historyVars>>

CmdNext == (\E c \in Lines : MainLoop(c)) \/ EndOfInput

CmdSpec == Init /\ [][CmdNext]_vars

\* ------------------------------------------------------- claims under Spec
Bound(v) == {n \in DOMAIN db : db[n] = v}
Top == Len(transactions)
Succeeded(kind) == op.kind = kind /\ ret = None

\* C1: in every reachable state, for every value v, NUMEQUALTO(v) is the number
\* of names bound to v in the key map.
C1_IndexMatchesMap ==
    \A v \in Values : NumEqualToResult(value_count, v) = Cardinality(Bound(v))
\* A successful ROLLBACK inside an outer frame has restored two entries, and two
\* names are bound to one value.
C1_Witness ==
    /\ Succeeded("ROLLBACK") /\ op.depth = 2 /\ op.undone = 2
    /\ \E v \in Values : NumEqualToResult(value_count, v) = 2

\* C2: every successful ROLLBACK leaves the key map and the value index as they
\* were at the BEGIN that pushed the frame it pops.
C2_RollbackRestoresBegin ==
    [][(op'.kind = "ROLLBACK" /\ transactions # <<>>)
        => /\ db' = snaps[Len(snaps)].db
           /\ value_count' = snaps[Len(snaps)].vc]_vars
\* An inner ROLLBACK has undone mutations of both names, and changed the map back
\* to a non-empty one.
C2_Witness ==
    /\ Succeeded("ROLLBACK") /\ op.depth = 2 /\ op.undone = 2
    /\ Top = 1 /\ Len(transactions[1]) = 2
    /\ DOMAIN db = Names

\* C3: COMMIT at depth d > 0 empties the stack and leaves the key map and the
\* value index as they were.
C3_CommitDiscardsAll ==
    [][(op'.kind = "COMMIT" /\ transactions # <<>>)
        => /\ transactions' = <<>>
           /\ db' = db
           /\ value_count' = value_count]_vars
\* A COMMIT issued at depth 2 has succeeded, with bindings in the map.
C3_Witness ==
    /\ Succeeded("COMMIT") /\ op.depth = 2
    /\ transactions = <<>> /\ db # EmptyDict

\* C4: after a successful COMMIT and before any further BEGIN, ROLLBACK and
\* COMMIT return NO TRANSACTION and leave the key map and value index unchanged.
C4_NothingAfterCommit ==
    [][(committed /\ op'.kind \in {"ROLLBACK", "COMMIT"})
        => /\ ret' = NoTransaction
           /\ db' = db
           /\ value_count' = value_count]_vars
\* A ROLLBACK after a COMMIT has been refused; the committed bindings are there.
C4_Witness ==
    /\ committed /\ op.kind = "ROLLBACK" /\ ret = NoTransaction
    /\ db # EmptyDict

\* C5: ROLLBACK and COMMIT on an empty stack return NO TRANSACTION and leave
\* key map, value index and stack as they were.
C5_NoTransactionNoChange ==
    [][(op'.kind \in {"ROLLBACK", "COMMIT"} /\ transactions = <<>>)
        => /\ ret' = NoTransaction
           /\ UNCHANGED store]_vars
\* A COMMIT has been refused in a store that never committed.
C5_Witness ==
    /\ ~committed /\ op.kind = "COMMIT" /\ ret = NoTransaction
    /\ transactions = <<>> /\ db # EmptyDict

\* C6: in the state SET(n, v) leaves, at any depth, GET(n) returns v.
C6_GetAfterSet ==
    op.kind = "SET" => GetResult(db, op.name) = op.value
\* A SET at depth 2 has rebound a name that held another value.
C6_Witness ==
    /\ op.kind = "SET" /\ op.depth = 2
    /\ \E i \in 1..Len(transactions[Top]) :
          /\ transactions[Top][i].name = op.name
          /\ transactions[Top][i].old \notin {None, op.value}
    /\ GetResult(db, op.name) = op.value

\* C7: an UNSET(n) directly after an UNSET(n) changes neither key map, value
\* index nor stack, and so does any UNSET of an unbound name.
C7_UnsetIdempotent ==
    [][(/\ op'.kind = "UNSET"
        /\ \/ op.kind = "UNSET" /\ op.name = op'.name
           \/ op'.name \notin DOMAIN db)
        => UNCHANGED store]_vars
\* An UNSET at depth 2 has removed a bound name and recorded its undo entry: the
\* state in which the second UNSET is issued.
C7_Witness ==
    /\ op.kind = "UNSET" /\ op.depth = 2 /\ op.name \notin DOMAIN db
    /\ \E i \in 1..Len(transactions[Top]) :
          /\ transactions[Top][i].name = op.name
          /\ transactions[Top][i].old # None

\* --------------------------------------- claims under the threaded specs
AllIdle == \A t \in Threads : pc[t] = "idle"
WrittenAs(v) == {n \in WriterNames : written[n] = v}

\* C8: when all writers of disjoint names have returned, every written name is
\* bound to the value its writer set last, and NUMEQUALTO counts those bindings.
C8_NoLostWrites ==
    AllIdle =>
        /\ \A n \in WriterNames : written[n] # None => DbGet(db, n) = written[n]
        /\ \A v \in Values :
              NumEqualToResult(value_count, v) = Cardinality(WrittenAs(v))
\* Every writer has set its name, all to one value, some after another value was
\* written, and all have returned.
C8_Witness ==
    /\ AllIdle
    /\ \A n \in WriterNames : written[n] = "10"
    /\ NumEqualToResult(value_count, "10") = NumThreads
    /\ "NULL" \notin DOMAIN value_count

\* C9: at most one thread is inside a with block, and whenever get or
\* numequalto is at its read, the value index agrees with the key map.
C9_AtomicUnderLock ==
    /\ Cardinality({t \in Threads : InCS(t)}) <= 1
    /\ \A t \in Threads :
          pc[t] \in {"get_read", "num_read"} =>
              \A v \in Values :
                  NumEqualToResult(value_count, v) = Cardinality(Bound(v))
\* A NUMEQUALTO waits for the lock while a SET has written the key map and not
\* yet the value index.
C9_Witness ==
    \E t, u \in Threads :
        /\ pc[t] = "lock" /\ loc[t].call = "NUMEQUALTO"
        /\ pc[u] = "uvc_inc_write" /\ loc[u].call = "SET"
        /\ NumEqualToResult(value_count, loc[t].value)
               # Cardinality(Bound(loc[t].value))

\* C10: the lock is held only while some thread is inside a with block, some
\* step is always possible, and under fair scheduling every call returns.
C10_LockReleasedNoStall ==
    /\ [](lock => \E t \in Threads : InCS(t))
    /\ [](ENABLED ConcNext)
    /\ \A t \in Threads : (pc[t] # "idle") ~> (pc[t] = "idle")
\* A ROLLBACK refused with NO TRANSACTION is about to leave its with block
\* while another thread waits for the lock.
C10_Witness ==
    \E t, u \in Threads :
        /\ pc[t] = "unlock" /\ loc[t].call = "ROLLBACK"
        /\ loc[t].ret = NoTransaction
        /\ pc[u] = "lock"

\* ------------------------------------------------ undo frames, under Spec
OneEntryPerName(frame) ==
    \A i, j \in 1..Len(frame) : frame[i].name = frame[j].name => i = j

\* C13: a SET or UNSET changes no undo entry that a frame already holds, and
\* every frame holds at most one entry per name.
C13_FirstSeenCapture ==
    [][op'.kind \in {"SET", "UNSET"} =>
        /\ Len(transactions') = Len(transactions)
        /\ \A k \in 1..Len(transactions) :
              /\ \A i \in 1..Len(transactions[k]) :
                    /\ i <= Len(transactions'[k])
                    /\ transactions'[k][i] = transactions[k][i]
              /\ OneEntryPerName(transactions'[k])]_vars
\* A SET has rebound a name whose entry was recorded before the entry of the
\* other name, so by an earlier mutation; the entry holds another value than
\* the one just set.
C13_Witness ==
    /\ op.kind = "SET" /\ Top >= 1
    /\ Len(transactions[Top]) = 2
    /\ transactions[Top][1].name = op.name
    /\ transactions[Top][1].old # op.value
    /\ db[op.name] = op.value

\* C14: every undo entry of every open frame holds the binding (value, or None
\* for absence) its name had when BEGIN pushed the frame.
C14_EntriesHoldBeginValues ==
    /\ Len(snaps) = Len(transactions)
    /\ \A k \in 1..Len(transactions) :
          \A i \in 1..Len(transactions[k]) :
              transactions[k][i].old
                  = DbGet(snaps[k].db, transactions[k][i].name)
\* Two open frames hold an entry for the same name with different begin-time
\* bindings, and the name is now bound to neither.
C14_Witness ==
    /\ Top = 2
    /\ \E i \in 1..Len(transactions[1]), j \in 1..Len(transactions[2]) :
          /\ transactions[1][i].name = transactions[2][j].name
          /\ transactions[1][i].old # transactions[2][j].old
          /\ DbGet(db, transactions[1][i].name)
                 \notin {transactions[1][i].old, transactions[2][j].old}

\* C15: no step changes a frame that is not the innermost one, as long as the
\* frame stays on the stack: SET and UNSET write the innermost frame only, and
\* ROLLBACK leaves every remaining frame as it was.
C15_OuterFramesUntouched ==
    [][\A k \in 1..(Len(transactions) - 1) :
          k <= Len(transactions') => transactions'[k] = transactions[k]]_vars
\* An inner ROLLBACK has restored two names of which the outer frame, still
\* open, holds no entry.
C15_Witness ==
    /\ Succeeded("ROLLBACK") /\ op.depth = 2 /\ op.undone = 2
    /\ Top = 1 /\ transactions[1] = <<>>
    /\ db # EmptyDict

\* C16: every entry of the value index has a count of at least 1.
C16_CountsPositive ==
    \A v \in DOMAIN value_count : value_count[v] >= 1
\* A SET has bound the only bound name to the value it held when the frame
\* began (its count went down to 0 and up again, or another value's count went
\* to 0): the index holds that value alone, counted once.
C16_Witness ==
    /\ op.kind = "SET" /\ Top >= 1
    /\ transactions[Top] = <<[name |-> op.name, old |-> op.value]>>
    /\ DOMAIN db = {op.name}
    /\ DOMAIN value_count = {op.value}
    /\ value_count[op.value] = 1

\* C17: BEGIN is enabled in every state (of the depths modelled, below
\* MaxDepth), pushes one empty frame and leaves key map, value index and the
\* frames below as they were; a ROLLBACK at depth d > 0 pops exactly the
\* innermost frame.
C17_DepthStateMachine ==
    /\ [](Len(transactions) < MaxDepth => ENABLED Begin)
    /\ [][op'.kind = "BEGIN" =>
            /\ transactions' = Append(transactions, <<>>)
            /\ db' = db
            /\ value_count' = value_count]_vars
    /\ [][(op'.kind = "ROLLBACK" /\ transactions # <<>>) =>
            /\ Len(transactions') = Len(transactions) - 1
            /\ transactions' = SubSeq(transactions, 1, Len(transactions) - 1)]_vars
\* A BEGIN issued inside an open frame that holds undo entries has pushed a
\* second, empty frame.
C17_Witness ==
    /\ op.kind = "BEGIN" /\ op.depth = 1 /\ Top = 2
    /\ transactions[2] = <<>> /\ Len(transactions[1]) >= 1
    /\ db # EmptyDict

\* C18: a GET answers NULL exactly when the name is unbound, so NULL never
\* stands for a stored value.  (Stated as the specification words it; the
\* program violates it: get() returns the string 'NULL' for unbound names and
\* SET accepts the token NULL as a value.)
C18_NullMeansUnbound ==
    op.kind = "GET" => (ret = "NULL" <=> op.name \notin DOMAIN db)

\* ------------------------------------------------- claims under CmdSpec
\* print() of a count: str() of the integers a count can be here
Str(n) == CASE n = 0 -> "0" [] n = 1 -> "1" [] n = 2 -> "2" [] OTHER -> "3"

\* The commands and the token count each takes, verb included.
Arity(cmd) ==
    CASE cmd = "SET" -> 3
      [] cmd \in {"GET", "UNSET", "NUMEQUALTO"} -> 2
      [] cmd \in {"BEGIN", "ROLLBACK", "COMMIT", "END"} -> 1
      [] OTHER -> 0
\* A line with an unknown verb, or with a token count other than the arity.
Malformed(c) == c # <<>> /\ Len(c) # Arity(Upper(c[1]))

\* C11: a line made of NUMEQUALTO and one value token prints the number of
\* names bound to that value and the loop goes on reading.  (Stated as the
\* specification words it; the program violates it: the branch reads
\* command[2] of a two-token line.)
C11_NumEqualToPrintsCount ==
    [][\A c \in Lines :
          (Len(c) = 2 /\ Upper(c[1]) = "NUMEQUALTO" /\ MainLoop(c)) =>
              /\ out' = Str(NumEqualToResult(value_count, c[2]))
              /\ status' = "reading"]_vars

\* C12: a line with an unknown verb or the wrong token count prints Invalid
\* command, leaves map, index and stack alone and does not end the session.
\* (Stated as the specification words it; the program violates it: BEGIN,
\* ROLLBACK, COMMIT and END are accepted with any number of tokens.)
C12_MalformedIsRejected ==
    [][\A c \in Lines :
          (Malformed(c) /\ MainLoop(c)) =>
              /\ out' = InvalidCommand
              /\ UNCHANGED store
              /\ status' = "reading"]_vars

\* ------------------------------------------------ claims under SharedSpec
\* C19: frames belong to the store, not to the caller.  With one thread
\* opening the frames and the others writing: a SET or UNSET by a writer,
\* while a frame is open, leaves the name recorded in the innermost frame; a
\* ROLLBACK by the opener ends with map and index as they were at its BEGIN,
\* the writers' changes undone; a COMMIT by a writer discards every frame.
C19_FramesAreGlobal ==
    /\ [][\A t \in Threads :
            (/\ ~IsOpener(t)
             /\ pc[t] \in {"set_record", "unset_record"}
             /\ pc'[t] # pc[t]
             /\ transactions # <<>>) =>
                /\ Len(transactions') = Len(transactions)
                /\ loc[t].name \in FrameNames(transactions'[Len(transactions')])]_vars
    /\ [][\A t \in Threads :
            (IsOpener(t) /\ pc[t] = "rb_loop" /\ pc'[t] = "unlock") =>
                /\ snaps # <<>>
                /\ db' = snaps[Len(snaps)].db
                /\ value_count' = snaps[Len(snaps)].vc]_vars
    /\ [][\A t \in Threads :
            (/\ ~IsOpener(t)
             /\ pc[t] = "commit_check"
             /\ pc'[t] # pc[t]
             /\ transactions # <<>>) => transactions' = <<>>]_vars
\* The opener has just undone a frame that held a writer's entry for a name
\* the writer had bound: the name is back at the recorded value.
C19_Witness ==
    \E t \in Threads :
        /\ IsOpener(t)
        /\ pc[t] = "unlock"
        /\ loc[t].call = "ROLLBACK"
        /\ loc[t].ret = None
        /\ Len(loc[t].transaction) >= 1
        /\ loc[t].current_value # None
        /\ loc[t].current_value # loc[t].old_value
        /\ DbGet(db, loc[t].transaction[1].name) = loc[t].transaction[1].old

====
